---- MODULE Spec2Model ----
(***************************************************************************)
(* Model of the IT-News bot (src/main.py): the SQLite dedup store          *)
(* (DatabaseManager), the feed pipeline (ITNewsBot.fetch_articles, run,    *)
(* send_post) and the Flask /run trigger with its is_running guard.        *)
(*                                                                         *)
(* Texts are sequences of one-character strings over the alphabet          *)
(*   g i t s q l r u o h b c m p w . / < > G ! ? and the space.            *)
(* IT_KEYWORDS below lists, in source order and with the source's          *)
(* repetitions, exactly the keywords of src/main.py:32-86 that can occur   *)
(* in a text over this alphabet, so calculate_it_score agrees with the     *)
(* source on every such text.                                              *)
(***************************************************************************)
EXTENDS Integers, Sequences, FiniteSets, TLC

\* ------------------------------------------------------------------ bounds
MaxEntries == 1      \* entries one feed returns at most
MaxRuns == 2         \* /run triggers that pass the guard, over the whole behaviour
MaxCalls == 3        \* save_post calls in the store harness
MaxTicks == 1        \* clock advances between runs
MaxStoreTicks == 3   \* clock advances in the store harness
MaxWideRuns == 1     \* /run triggers on a day with up to three entries per feed
MaxPosts == 4        \* posts per fingerprint in the channel while the cron goes on
MaxStatsMsgs == 2    \* statistics messages in the channel while the cron goes on

\* ------------------------------------------------------- program constants
MinScore == 3        \* is_it_related(min_score=3)
SendThreshold == 3   \* run: article['it_score'] >= 3
MaxSend == 3         \* run: articles[:3]
FetchLimit == 15     \* fetch_articles: feed.entries[:15]
HashPrefix == 500    \* description[:500]
TitleMax == 200      \* title[:200]
DescMax == 800       \* description[:800]
LongText == 500      \* calculate_it_score: len(text) > 500
DaysToKeep == 60     \* cleanup_old_posts(days_to_keep=60)
TickDays == 30       \* the clock advances in steps of 30 days

\* Python's None where an integer is expected (a rowid, a day): no integer
\* of the program is negative.
None == -1
Min(a, b) == IF a < b THEN a ELSE b

\* --------------------------------------------------------------- text
\* text[:n]
Take(text, n) == SubSeq(text, 1, Min(n, Len(text)))

LowerChar(c) == IF c = "G" THEN "g" ELSE c

\* str.lower()
Lower(text) == [i \in 1..Len(text) |-> LowerChar(text[i])]

\* sub in text
Contains(sub, text) ==
    \E i \in 0..(Len(text) - Len(sub)) :
        \A j \in 1..Len(sub) : text[i + j] = sub[j]

IT_KEYWORDS ==
    << <<"g","i","t","h","u","b">>, <<"g","i","t">>, <<"g","o">>,
       <<"r","u","s","t">>, <<"p","h","p">>, <<"h","t","m","l">>,
       <<"c","s","s">>, <<"s","q","l">>, <<"s","q","l">>, <<"i","o","s">>,
       <<"g","c","p">>, <<"m","l">>, <<"i","o","s">>, <<"h","t","t","p">>,
       <<"h","t","t","p","s">>, <<"s","s","l">>, <<"t","l","s">>,
       <<"c","p","u">>, <<"g","p","u">>, <<"s","c","r","u","m">> >>

\* 'github.com', 'stackoverflow', 'gitlab': only the first is over the alphabet
TechSites == { <<"g","i","t","h","u","b",".","c","o","m">> }

UrlMarks == { <<"h","t","t","p">>, <<"w","w","w",".">> }

\* calculate_it_score without the bonus for 'http' or 'www.'.
calculate_it_score_no_url(text) ==
    IF text = <<>> THEN 0
    ELSE LET text_lower == Lower(text)
             kw == Cardinality({k \in 1..Len(IT_KEYWORDS) :
                                  Contains(Lower(IT_KEYWORDS[k]), text_lower)})
             tech == IF \E s \in TechSites : Contains(s, text_lower) THEN 2 ELSE 0
             long == IF Len(text) > LongText THEN 1 ELSE 0
         IN  kw + tech + long

calculate_it_score(text) ==
    IF text = <<>> THEN 0
    ELSE LET text_lower == Lower(text)
             kw == Cardinality({k \in 1..Len(IT_KEYWORDS) :
                                  Contains(Lower(IT_KEYWORDS[k]), text_lower)})
             tech == IF \E s \in TechSites : Contains(s, text_lower) THEN 2 ELSE 0
             url == IF \E s \in UrlMarks : Contains(s, text_lower) THEN 1 ELSE 0
             long == IF Len(text) > LongText THEN 1 ELSE 0
         IN  kw + tech + url + long

\* f"{title} {description}"
Combined(title, description) == title \o <<" ">> \o description

\* is_it_related with a strict comparison: score > min_score.
is_it_related_strict(title, description) ==
    calculate_it_score(Combined(title, description)) > MinScore

is_it_related(title, description) ==
    calculate_it_score(Combined(title, description)) >= MinScore

\* ---------------------------------------------------------- _clean_html
\* BeautifulSoup(html_text, 'html.parser').get_text(separator=' ', strip=True)
\* as html.parser of Python 3.11 and bs4 from 4.11 on compute it on texts
\* over the alphabet.  A "<" opens markup only before a letter, "/", "!" or
\* "?", and only when a ">" follows somewhere; any other "<" is text.
Letters == {"g","i","t","s","q","l","r","u","o","h","b","c","m","p","w","G"}

\* bs4: the tags that cannot have content (empty_element_tags), and the
\* tags whose strings get_text leaves out (DEFAULT_STRING_CONTAINERS), as
\* far as the alphabet spells them.
VoidNames == { <<"b","r">>, <<"c","o","l">>, <<"h","r">>, <<"i","m","g">>,
               <<"w","b","r">> }
StringContainers == { <<"r","t">>, <<"r","p">>, <<"s","c","r","i","p","t">> }

\* The least position k >= i of s with s[k] in cs, Len(s) + 1 when none.
Find(s, cs, i) ==
    LET at == {k \in i..Len(s) : s[k] \in cs}
    IN  IF at = {} THEN Len(s) + 1 ELSE CHOOSE k \in at : \A m \in at : k <= m

\* The least position k >= i of s with s[k] not in cs, Len(s) + 1 when none.
FindNot(s, cs, i) ==
    LET at == {k \in i..Len(s) : s[k] \notin cs}
    IN  IF at = {} THEN Len(s) + 1 ELSE CHOOSE k \in at : \A m \in at : k <= m

\* tagfind_tolerant: the tag name runs up to a space, "/" or ">".
TagName(s, i) == [k \in 1..(Find(s, {" ", "/", ">"}, i) - i) |-> LowerChar(s[i + k - 1])]

\* endtagfind, </\s*([a-zA-Z][-.a-zA-Z0-9:_]*)\s*>, matched at position lt:
\* the name it finds, <<>> when it does not match.
EndTagName(s, lt) ==
    LET a == FindNot(s, {" "}, lt + 2)
        b == FindNot(s, Letters \cup {"."}, a)
        e == FindNot(s, {" "}, b)
    IN  IF a <= Len(s) /\ s[a] \in Letters /\ e <= Len(s) /\ s[e] = ">"
        THEN [k \in 1..(b - a) |-> LowerChar(s[a + k - 1])]
        ELSE <<>>

\* The position of the ">" that ends a closing tag of script starting at m
\* (set_cdata_mode: </\s*script\s*>), 0 when none starts there.
EndsScript(s, m) ==
    IF m + 1 <= Len(s) /\ s[m] = "<" /\ s[m + 1] = "/"
       /\ EndTagName(s, m) = <<"s","c","r","i","p","t">>
    THEN Find(s, {">"}, m) ELSE 0

\* _popToTag: the open tags up to the last one of that name are closed.
PopToTag(open, name) ==
    LET at == {k \in 1..Len(open) : open[k] = name}
    IN  IF at = {} THEN open
        ELSE SubSeq(open, 1, (CHOOSE k \in at : \A m \in at : m <= k) - 1)

\* already_closed_empty_element.remove(name)
RemoveOne(closed, name) ==
    LET k == CHOOSE j \in 1..Len(closed) : closed[j] = name /\ \A m \in 1..(j - 1) : closed[m] # name
    IN  SubSeq(closed, 1, k - 1) \o SubSeq(closed, k + 1, Len(closed))

IsIn(closed, name) == \E j \in 1..Len(closed) : closed[j] = name

\* The text get_text collects from position i on: out is what was collected
\* so far, a space standing for every boundary between two strings; open
\* are the names of the open tags, closed the void tags that were closed on
\* their own (already_closed_empty_element).
RECURSIVE Scan(_, _, _, _, _)
Scan(s, i, out, open, closed) ==
    LET n == Len(s)
        lt == Find(s, {"<"}, i)
        gt == Find(s, {">"}, lt + 1)
        inside == \E k \in 1..Len(open) : open[k] \in StringContainers
        text == IF inside THEN out ELSE out \o SubSeq(s, i, lt - 1)
        c == IF lt < n THEN s[lt + 1] ELSE " "
    IN  IF lt > n THEN text
        ELSE IF c \notin Letters \cup {"/", "!", "?"}
        THEN Scan(s, lt + 1, IF inside THEN text ELSE text \o <<"<">>, open, closed)
        ELSE IF gt > n
        THEN IF inside THEN text ELSE text \o SubSeq(s, lt, n)
        ELSE IF c \in Letters
        THEN LET name == TagName(s, lt + 1)
             IN  IF s[gt - 1] = "/"
                 THEN IF IsIn(closed, name)
                      THEN Scan(s, gt + 1, text \o <<" ">>, Append(open, name),
                                RemoveOne(closed, name))
                      ELSE Scan(s, gt + 1, text \o <<" ">>, open, closed)
                 ELSE IF name \in VoidNames
                 THEN Scan(s, gt + 1, text \o <<" ">>, open, Append(closed, name))
                 ELSE IF name = <<"s","c","r","i","p","t">>
                 THEN LET ends == {m \in (gt + 1)..n : EndsScript(s, m) # 0}
                      IN  IF ends = {} THEN text \o <<" ">>
                          ELSE Scan(s, EndsScript(s, CHOOSE m \in ends : \A k \in ends : m <= k) + 1,
                                    text \o <<" ">>, open, closed)
                 ELSE Scan(s, gt + 1, text \o <<" ">>, Append(open, name), closed)
        ELSE IF c = "/"
        THEN LET name == IF EndTagName(s, lt) # <<>> THEN EndTagName(s, lt)
                         ELSE IF s[lt + 2] \in Letters THEN TagName(s, lt + 2)
                         ELSE <<>>
             IN  IF gt = lt + 2 THEN Scan(s, gt + 1, text, open, closed)
                 ELSE IF name = <<>> THEN Scan(s, gt + 1, text \o <<" ">>, open, closed)
                 ELSE IF IsIn(closed, name)
                 THEN Scan(s, gt + 1, text, open, RemoveOne(closed, name))
                 ELSE Scan(s, gt + 1, text \o <<" ">>, PopToTag(open, name), closed)
        ELSE Scan(s, gt + 1, text \o <<" ">>, open, closed)

get_text(html_text) == Scan(html_text, 1, <<>>, <<>>, <<>>)

\* re.sub(r'\s+', ' ', text): of a run of spaces the last one stays.
KeptChar(p) == p[2]
CollapseSpaces(s) ==
    LET marked == [i \in 1..Len(s) |->
                     <<s[i], ~(s[i] = " " /\ i < Len(s) /\ s[i + 1] = " ")>>]
        kept == SelectSeq(marked, KeptChar)
    IN  [i \in 1..Len(kept) |-> kept[i][1]]

Strip(s) ==
    LET t == IF s # <<>> /\ s[1] = " " THEN Tail(s) ELSE s
    IN  IF t # <<>> /\ t[Len(t)] = " " THEN SubSeq(t, 1, Len(t) - 1) ELSE t

\* _clean_html (lines 362-373); raises: BeautifulSoup or get_text raises and
\* the except branch returns the text as it came.
clean_html(html_text, raises) ==
    IF html_text = <<>> THEN <<>>
    ELSE IF raises THEN html_text
    ELSE Strip(CollapseSpaces(get_text(html_text)))

\* The fingerprint taken over the title and the whole description.
content_hash_of_whole(title, description) == title \o description

\* hashlib.md5(f"{title}{description[:500]}".encode()).hexdigest(): the digest
\* is modelled as collision-free, i.e. as the hashed string itself.
content_hash_of(title, description) == title \o Take(description, HashPrefix)

\* --------------------------------------------------------------- feeds
\* Two of the entries of IT_FEEDS (OpenNet, Hacker News), in declaration order.
IT_FEEDS ==
    << [name |-> "OpenNet", hashtags |-> "#OpenNet #Linux #OpenSource",
        categories |-> <<"Linux", "Open Source", "IT">>],
       [name |-> "Hacker News", hashtags |-> "#HackerNews #Tech #Programming",
        categories |-> <<"Technology", "Programming", "IT">>] >>

FeedIds == 1..Len(IT_FEEDS)

\* What feedparser can return for an entry: title, summary (markup), link and
\* the published string.  E1 and E2 are one article republished with
\* different markup and link; E3 scores below the threshold.
E1 == [title |-> <<"g","i","t">>, summary |-> <<"s","q","l">>,
       link |-> <<"l","1">>, published |-> "d2"]
E2 == [title |-> <<"g","i","t">>,
       summary |-> <<"<","p",">","s","q","l","<","/","p",">">>,
       link |-> <<"l","2">>, published |-> ""]
E3 == [title |-> <<"r","u","s","t">>, summary |-> <<"g","o">>,
       link |-> <<"l","3">>, published |-> "d1"]
E4 == [title |-> <<"G","p","u"," ","c","s","s">>,
       summary |-> <<"h","t","m","l"," ","<","b",">","t","l","s","<","/","b",">">>,
       link |-> <<"l","4">>, published |-> "d3"]

\* E5 ties with E1 on the score and is published later; E6 scores between
\* E1 and E4.
E5 == [title |-> <<"s","s","l">>, summary |-> <<"t","l","s"," ","p","h","p">>,
       link |-> <<"l","5">>, published |-> "d3"]
E6 == [title |-> <<"c","p","u"," ","g","p","u">>,
       summary |-> <<"s","c","r","u","m"," ","r","u","s","t">>,
       link |-> <<"l","6">>, published |-> "d1"]

EntryPool == {E1, E2, E3, E4, E5, E6}

\* The entries each feed can carry: the republished article reaches the
\* second feed as E2.
FeedPool == << <<E3, E1>>, <<E2, E4>> >>

\* A day with more news: up to three entries per feed.
WidePool == << <<E1, E5, E3>>, <<E6, E4, E2>> >>

\* The subsequences of a list.
RECURSIVE SubLists(_)
SubLists(q) ==
    IF q = <<>> THEN {<<>>}
    ELSE LET rest == SubLists(Tail(q))
         IN  rest \cup {<<q[1]>> \o r : r \in rest}

\* feedparser.parse raises, or the feed cannot be read
FAIL == [ok |-> FALSE, entries |-> <<>>]

\* A feed either fails or yields some of its entries (possibly none).
FeedResults(f) ==
    {FAIL} \cup {[ok |-> TRUE, entries |-> q] :
                    q \in {r \in SubLists(FeedPool[f]) : Len(r) <= MaxEntries}}

\* On such a day a feed fails or yields the last k entries of its list,
\* k = 0..3.
WideResults(f) ==
    {FAIL} \cup {[ok |-> TRUE, entries |-> SubSeq(WidePool[f], k, Len(WidePool[f]))] :
                    k \in 1..(Len(WidePool[f]) + 1)}

\* The article dict built in fetch_articles for one entry of one feed
\* (lines 309-343); clean_raises: _clean_html took its except branch.
MakeArticle(entry, feed_config, clean_raises) ==
    LET title == entry.title
        description == clean_html(entry.summary, clean_raises)
    IN  [title |-> Take(title, TitleMax),
         link |-> entry.link,
         description |-> Take(description, DescMax),
         source |-> feed_config.name,
         hashtags |-> feed_config.hashtags,
         content_hash |-> content_hash_of(title, description),
         it_score |-> calculate_it_score(Combined(title, description)),
         category |-> IF feed_config.categories # <<>>
                      THEN feed_config.categories[1] ELSE "IT",
         published |-> entry.published,
         full_text |-> title \o <<".", " ">> \o Take(description, HashPrefix)]

EntryHash(entry, clean_raises) ==
    content_hash_of(entry.title, clean_html(entry.summary, clean_raises))

\* The values fetch_articles computes for the entries of the pool, tabulated:
\* with the summary cleaned, and (Raw...) with the summary as it came, as
\* when _clean_html took its except branch.
Related == [e \in EntryPool |-> is_it_related(e.title, clean_html(e.summary, FALSE))]
HashOf == [e \in EntryPool |-> EntryHash(e, FALSE)]
ArticleOf == [f \in FeedIds |-> [e \in EntryPool |-> MakeArticle(e, IT_FEEDS[f], FALSE)]]
RawRelated == [e \in EntryPool |-> is_it_related(e.title, clean_html(e.summary, TRUE))]
RawHashOf == [e \in EntryPool |-> EntryHash(e, TRUE)]
RawArticleOf == [f \in FeedIds |-> [e \in EntryPool |-> MakeArticle(e, IT_FEEDS[f], TRUE)]]
Hashes == {HashOf[e] : e \in EntryPool} \cup {RawHashOf[e] : e \in EntryPool}


\* --------------------------------------------------------------- store
\* sent_posts is the table: a set of rows; sqlite_sequence is the
\* AUTOINCREMENT counter, which an ignored INSERT advances as well.

\* SELECT id FROM sent_posts WHERE content_hash = ?
is_post_sent(rows, content_hash) ==
    \E r \in rows : r.content_hash = content_hash

NewRow(seq, a, at) ==
    [id |-> seq + 1, content_hash |-> a.content_hash, title |-> a.title,
     link |-> a.link, source |-> a.source, category |-> a.category,
     sent_date |-> at, it_score |-> a.it_score]

\* save_post without the UNIQUE constraint on content_hash: a plain INSERT.
save_post_no_unique(rows, seq, a, at) ==
    [rows |-> rows \cup {NewRow(seq, a, at)}, seq |-> seq + 1, ret |-> seq + 1]

\* save_post with INSERT OR REPLACE: the row of the fingerprint is rewritten.
save_post_replace(rows, seq, a, at) ==
    [rows |-> {r \in rows : r.content_hash # a.content_hash} \cup {NewRow(seq, a, at)},
     seq |-> seq + 1, ret |-> seq + 1]

\* INSERT OR IGNORE ... ; return cursor.lastrowid.  On a fresh connection
\* an ignored insert leaves lastrowid 0.
save_post(rows, seq, a, at) ==
    IF is_post_sent(rows, a.content_hash)
    THEN [rows |-> rows, seq |-> seq + 1, ret |-> 0]
    ELSE [rows |-> rows \cup {NewRow(seq, a, at)}, seq |-> seq + 1, ret |-> seq + 1]

\* the except branch of save_post
save_post_failed(rows, seq) == [rows |-> rows, seq |-> seq, ret |-> None]

\* The rows written DaysToKeep days before day at.  The DELETE compares
\* timestamps to the second (lines 236-239), so of these rows it removes the
\* ones written earlier in their day than the call comes in its own: late
\* is one of LateChoices, the rows written first, up to any of them.
AtCutoff(rows, at) == {r \in rows : r.sent_date = at - DaysToKeep}
LateChoices(rows, at) ==
    {late \in SUBSET AtCutoff(rows, at) :
        \A r \in late : \A q \in AtCutoff(rows, at) : q.id < r.id => q \in late}

\* DELETE FROM sent_posts WHERE sent_date < datetime('now', '-60 days')
cleanup_old_posts(rows, at, late) ==
    LET old == {r \in rows : r.sent_date < at - DaysToKeep} \cup late
    IN  [rows |-> rows \ old, deleted |-> Cardinality(old)]

\* init_database that creates the table anew on every start.
init_database_recreate(rows) == {}

\* CREATE TABLE IF NOT EXISTS sent_posts: an existing table is kept.
init_database(rows) == rows

\* --------------------------------------------------------------- pipeline
\* One iteration of the inner loop of fetch_articles (lines 307-350).
\* lookup_raises: the call of is_post_sent raises, which the per-entry
\* except turns into a skip; clean_raises: _clean_html returned the summary
\* as it came.
FetchEntry(entry, f, rows, lookup_raises, clean_raises) ==
    LET related == IF clean_raises THEN RawRelated[entry] ELSE Related[entry]
        content_hash == IF clean_raises THEN RawHashOf[entry] ELSE HashOf[entry]
        article == IF clean_raises THEN RawArticleOf[f][entry] ELSE ArticleOf[f][entry]
    IN  IF ~related THEN <<>>
        ELSE IF lookup_raises THEN <<>>
        ELSE IF is_post_sent(rows, content_hash) THEN <<>>
        ELSE <<article>>

\* list.sort(key=it_score, reverse=True): stable, descending.
RECURSIVE InsertByScore(_, _)
InsertByScore(sorted, a) ==
    IF sorted = <<>> THEN <<a>>
    ELSE IF sorted[1].it_score >= a.it_score
         THEN <<sorted[1]>> \o InsertByScore(Tail(sorted), a)
         ELSE <<a>> \o sorted

RECURSIVE SortByScore(_)
SortByScore(list) ==
    IF list = <<>> THEN <<>>
    ELSE InsertByScore(SortByScore(SubSeq(list, 1, Len(list) - 1)), list[Len(list)])

\* fetch_articles without the sort of line 359.
sort_by_it_score_skipped(it_articles) == it_articles

\* it_articles.sort(key=lambda x: x['it_score'], reverse=True) (line 359)
sort_by_it_score(it_articles) == SortByScore(it_articles)

\* --------------------------------------------------------------- state
NumThreads == 2
Threads == 1..NumThreads

VARIABLES
    feeds,            \* what each feed returns (fixed for the behaviour)
    sent_posts,       \* rows of the table sent_posts
    sqlite_sequence,  \* AUTOINCREMENT counter of sent_posts
    now,              \* the clock, in days
    last_stats,       \* content of the file .last_stats, or None
    is_running,       \* the global guard of run_bot
    pc,               \* position of each request thread
    cursor,               \* the entry <<feed, index>> the thread's fetch_articles is cursor, or the index <<k>> its loop over articles[:3] is at
    articles,         \* it_articles of the thread's run
    sent_count,       \* sent_count of the thread's run
    result,           \* status of the last response to the thread
    channel,          \* news posts in the channel, counted per fingerprint
    stats_msgs,       \* statistics messages in the channel
    runs,             \* triggers that passed the guard check
    okSends,          \* history: fingerprints the run counted as sent
    failedSends,      \* history: fingerprints whose send failed in the run
    attempted,        \* history: positions of the list the run called send_post for
    wrote,            \* history: fingerprints the run inserted a row for
    prior,            \* history: fingerprints delivered by runs finished before this one was triggered
    doneFps,          \* history: fingerprints delivered by finished runs
    storeErr,         \* history: a lookup or insert raised in the run
    call,             \* store harness: the last call and what it returned
    calls,            \* store harness: number of save_post calls
    recorded,         \* store harness: fingerprints saved and not purged since
    input,            \* function harness: the arguments drawn
    output            \* function harness: what the function returned

vars == <<feeds, sent_posts, sqlite_sequence, now, last_stats, is_running, pc,
          cursor, articles, sent_count, result, channel, stats_msgs, runs, okSends,
          failedSends, attempted, wrote, prior, doneFps, storeErr, call, calls,
          recorded, input, output>>

storeVars == <<sent_posts, sqlite_sequence>>
runVars == <<articles, sent_count, cursor>>
histVars == <<okSends, failedSends, attempted, wrote, prior, doneFps, storeErr>>
pureVars == <<input, output>>
harnessVars == <<call, calls, recorded, pureVars>>

NoCall == [op |-> "none", hash |-> <<>>, db_ok |-> TRUE, existed |-> FALSE,
           ret |-> None, found |-> FALSE]

InitCommon ==
    /\ sent_posts = {}
    /\ sqlite_sequence = 0
    /\ now = 0
    /\ last_stats = None
    /\ is_running = FALSE
    /\ pc = [t \in Threads |-> "idle"]
    /\ cursor = [t \in Threads |-> <<>>]
    /\ articles = [t \in Threads |-> <<>>]
    /\ sent_count = [t \in Threads |-> 0]
    /\ result = [t \in Threads |-> "none"]
    /\ channel = [h \in Hashes |-> 0]
    /\ stats_msgs = 0
    /\ runs = 0
    /\ okSends = [t \in Threads |-> {}]
    /\ failedSends = [t \in Threads |-> {}]
    /\ attempted = [t \in Threads |-> <<>>]
    /\ wrote = [t \in Threads |-> {}]
    /\ prior = [t \in Threads |-> {}]
    /\ doneFps = {}
    /\ storeErr = [t \in Threads |-> FALSE]
    /\ call = NoCall
    /\ calls = 0
    /\ recorded = {}

NoInput == [none |-> TRUE]
NoOutput == [done |-> FALSE]
InitPure == input = NoInput /\ output = NoOutput

Init ==
    /\ feeds \in {fs \in [FeedIds -> UNION {FeedResults(f) : f \in FeedIds}] :
                    \A f \in FeedIds : fs[f] \in FeedResults(f)}
    /\ InitCommon
    /\ InitPure

\* ------------------------------------------------------------- /run
\* The entries fetch_articles reads from feed f: feed.entries[:15], none
\* when the feed fails.
Entries(fs, f) == IF fs[f].ok THEN Take(fs[f].entries, FetchLimit) ELSE <<>>

\* The places <<feed, index>> of the entries the two loops of fetch_articles
\* go through, in their order; NoEntry when none is left.
NoEntry == <<>>
EntryPlaces(fs) == UNION {{<<f, i>> : i \in 1..Len(Entries(fs, f))} : f \in FeedIds}
PlaceBefore(p, q) == p[1] < q[1] \/ (p[1] = q[1] /\ p[2] < q[2])
FirstOf(places) ==
    IF places = {} THEN NoEntry
    ELSE CHOOSE p \in places : \A q \in places \ {p} : PlaceBefore(p, q)
FirstPlace(fs) == FirstOf(EntryPlaces(fs))
NextPlace(fs, p) == FirstOf({q \in EntryPlaces(fs) : PlaceBefore(p, q)})

\* run with the loop over the whole list: for article in articles.
Selected_all(list) == list

\* run, line 485: articles[:3]
Selected(list) == Take(list, MaxSend)

\* The next position from k on that the loop of run (lines 485-486) calls
\* send_post for, 0 when the loop is over.
NextSend(list, k) ==
    LET todo == {j \in k..Len(Selected(list)) : list[j].it_score >= SendThreshold}
    IN  IF todo = {} THEN 0 ELSE CHOOSE j \in todo : \A m \in todo : j <= m

\* run that goes on to the statistics whatever fetch_articles returned.
AfterFetch_stats_always(list) == "stats"

\* run, lines 467 and 481-486: the branch on the list fetch_articles
\* returned.  After the loop the read of stats['total'] (line 495) raises,
\* stats being unbound on this path, so cleanup_old_posts is not reached and
\* the except of line 500 ends run.
AfterFetch(list) ==
    IF list = <<>> THEN "stats"
    ELSE IF NextSend(list, 1) = 0 THEN "finish" ELSE "send"

\* run_bot that keeps a trigger which found the flag set and runs it later.
Trigger_queued(t) ==
    /\ pc[t] = "idle"
    /\ \A u \in Threads : u < t => pc[u] # "idle"
    /\ IF is_running
       THEN /\ result' = [result EXCEPT ![t] = "busy"]
            /\ pc' = [pc EXCEPT ![t] = "passed"]
            /\ UNCHANGED runs
       ELSE /\ runs < MaxRuns
            /\ pc' = [pc EXCEPT ![t] = "passed"]
            /\ result' = [result EXCEPT ![t] = "none"]
            /\ runs' = runs + 1
    /\ prior' = [prior EXCEPT ![t] = IF is_running THEN @ ELSE doneFps]
    /\ UNCHANGED <<feeds, storeVars, now, last_stats, is_running, runVars,
                   channel, stats_msgs, okSends, failedSends, attempted, wrote,
                   doneFps, storeErr, harnessVars>>

\* run_bot, lines 572-574: the guard check.  A trigger that finds the flag
\* set answers busy; one that finds it clear goes on to set it.  Request
\* threads are interchangeable: a request is served by the lowest free one.
Trigger(t) ==
    /\ pc[t] = "idle"
    /\ \A u \in Threads : u < t => pc[u] # "idle"
    /\ IF is_running
       THEN /\ result' = [result EXCEPT ![t] = "busy"]
            /\ UNCHANGED <<pc, runs>>
       ELSE /\ runs < MaxRuns
            /\ pc' = [pc EXCEPT ![t] = "passed"]
            /\ result' = [result EXCEPT ![t] = "none"]
            /\ runs' = runs + 1
    /\ prior' = [prior EXCEPT ![t] = IF is_running THEN @ ELSE doneFps]
    /\ UNCHANGED <<feeds, storeVars, now, last_stats, is_running, runVars,
                   channel, stats_msgs, okSends, failedSends, attempted, wrote,
                   doneFps, storeErr, harnessVars>>

\* run_bot, lines 576-583: is_running = True, then ITNewsBot(...), whose
\* DatabaseManager runs init_database, and the call of run up to the first
\* feedparser.parse; db_ok = FALSE: the store raises.
Acquire(t) ==
    /\ pc[t] = "passed"
    /\ is_running' = TRUE
    /\ \E db_ok \in BOOLEAN :
         IF db_ok
         THEN /\ sent_posts' = init_database(sent_posts)
              /\ pc' = [pc EXCEPT ![t] = "fetch"]
              /\ cursor' = [cursor EXCEPT ![t] = FirstPlace(feeds)]
              /\ UNCHANGED result
         ELSE /\ pc' = [pc EXCEPT ![t] = "release"]
              /\ result' = [result EXCEPT ![t] = "error"]
              /\ UNCHANGED <<sent_posts, cursor>>
    /\ UNCHANGED <<feeds, sqlite_sequence, now, last_stats, articles,
                   sent_count, channel, stats_msgs, runs, histVars, harnessVars>>

\* fetch_articles (lines 294-360), one entry at a time: the thread waits in
\* feedparser.parse before the entries of a feed and in time.sleep(1) after
\* them, and every entry has its own lookup in the store, so other requests
\* run in between.  With the last entry (or when no feed has one) the list
\* is sorted and run branches on it.
Fetch(t) ==
    /\ pc[t] = "fetch"
    /\ \E lookup_raises, clean_raises \in BOOLEAN :
         LET place == cursor[t]
             entry == Entries(feeds, place[1])[place[2]]
             next == IF place = NoEntry THEN NoEntry ELSE NextPlace(feeds, place)
         IN  /\ clean_raises => place # NoEntry /\ entry.summary # <<>>
             /\ lookup_raises =>
                   /\ place # NoEntry
                   /\ IF clean_raises THEN RawRelated[entry] ELSE Related[entry]
             /\ storeErr' = [storeErr EXCEPT ![t] = @ \/ lookup_raises]
             /\ \E found \in {IF place = NoEntry THEN <<>>
                                ELSE FetchEntry(entry, place[1], sent_posts,
                                                lookup_raises, clean_raises)} :
                  IF next # NoEntry
                  THEN /\ articles' = [articles EXCEPT ![t] = @ \o found]
                       /\ cursor' = [cursor EXCEPT ![t] = next]
                       /\ UNCHANGED pc
                  ELSE \E list \in {sort_by_it_score(articles[t] \o found)} :
                       \E branch \in {AfterFetch(list)} :
                         /\ articles' = [articles EXCEPT ![t] = list]
                         /\ pc' = [pc EXCEPT ![t] = branch]
                         /\ cursor' = [cursor EXCEPT ![t] =
                                         IF branch = "send"
                                         THEN <<NextSend(list, 1)>> ELSE <<>>]
    /\ UNCHANGED <<feeds, storeVars, now, last_stats, is_running, sent_count,
                   result, channel, stats_msgs, runs, okSends, failedSends,
                   attempted, wrote, prior, doneFps, harnessVars>>

\* The loop of run goes on after position k (lines 485-490 and 495).
LoopOn(t, k) ==
    LET n == NextSend(articles[t], k + 1)
    IN  /\ pc' = [pc EXCEPT ![t] = IF n = 0 THEN "finish" ELSE "send"]
        /\ cursor' = [cursor EXCEPT ![t] = IF n = 0 THEN <<>> ELSE <<n>>]

\* run with a loop that ends at the first send_post that returns False.
SendPost_stop_at_failure(t) ==
    /\ pc[t] = "send"
    /\ LET k == cursor[t][1]
           h == articles[t][k].content_hash
       IN  /\ attempted' = [attempted EXCEPT ![t] = Append(@, k)]
           /\ \E sent \in BOOLEAN :
                IF sent
                THEN /\ channel' = [channel EXCEPT ![h] = @ + 1]
                     /\ pc' = [pc EXCEPT ![t] = "save"]
                     /\ UNCHANGED <<cursor, failedSends>>
                ELSE /\ failedSends' = [failedSends EXCEPT ![t] = @ \cup {h}]
                     /\ pc' = [pc EXCEPT ![t] = "finish"]
                     /\ cursor' = [cursor EXCEPT ![t] = <<>>]
                     /\ UNCHANGED channel
    /\ UNCHANGED <<feeds, storeVars, now, last_stats, is_running, articles,
                   sent_count, result, stats_msgs, runs, okSends, wrote, prior,
                   doneFps, storeErr, harnessVars>>

\* send_post up to the return of send_message (lines 424-433 and 452-457),
\* for the article the loop of run is at.  sent = FALSE: format_post or
\* send_message raises, send_post returns False and the loop goes on.  The
\* thread waits in send_message, so the row is written in a later step.
SendPost(t) ==
    /\ pc[t] = "send"
    /\ LET k == cursor[t][1]
           h == articles[t][k].content_hash
       IN  /\ attempted' = [attempted EXCEPT ![t] = Append(@, k)]
           /\ \E sent \in BOOLEAN :
                IF sent
                THEN /\ channel' = [channel EXCEPT ![h] = @ + 1]
                     /\ pc' = [pc EXCEPT ![t] = "save"]
                     /\ UNCHANGED <<cursor, failedSends>>
                ELSE /\ failedSends' = [failedSends EXCEPT ![t] = @ \cup {h}]
                     /\ LoopOn(t, k)
                     /\ UNCHANGED channel
    /\ UNCHANGED <<feeds, storeVars, now, last_stats, is_running, articles,
                   sent_count, result, stats_msgs, runs, okSends, wrote, prior,
                   doneFps, storeErr, harnessVars>>

\* send_post after send_message returned (lines 435-450): save_post, whose
\* result only changes the log line, and the return of True; then run counts
\* the article (lines 488-490) and goes on.  db_ok = FALSE: the INSERT
\* raises and save_post returns None.
SavePost(t) ==
    /\ pc[t] = "save"
    /\ LET k == cursor[t][1]
           a == articles[t][k]
           h == a.content_hash
       IN  /\ \E db_ok \in BOOLEAN :
                LET res == IF db_ok THEN save_post(sent_posts, sqlite_sequence, a, now)
                           ELSE save_post_failed(sent_posts, sqlite_sequence)
                IN  /\ sent_posts' = res.rows
                    /\ sqlite_sequence' = res.seq
                    /\ wrote' = [wrote EXCEPT ![t] =
                                   IF res.ret # None /\ res.ret # 0
                                   THEN @ \cup {h} ELSE @]
                    /\ storeErr' = [storeErr EXCEPT ![t] = @ \/ res.ret = None]
           /\ okSends' = [okSends EXCEPT ![t] = @ \cup {h}]
           /\ sent_count' = [sent_count EXCEPT ![t] = @ + 1]
           /\ LoopOn(t, k)
    /\ UNCHANGED <<feeds, now, last_stats, is_running, articles, result,
                   channel, stats_msgs, runs, failedSends, attempted, prior,
                   doneFps, harnessVars>>

\* run on an empty list, lines 467-474: get_stats, the read of .last_stats
\* and the test whether statistics are due.  db_ok = FALSE: get_stats raises
\* and the except of line 500 ends run.
Stats(t) ==
    /\ pc[t] = "stats"
    /\ \E db_ok \in BOOLEAN :
         pc' = [pc EXCEPT ![t] =
                  IF db_ok /\ (last_stats = None \/ now - last_stats >= 1)
                  THEN "stats_send" ELSE "finish"]
    /\ UNCHANGED <<feeds, storeVars, now, last_stats, is_running, runVars,
                   result, channel, stats_msgs, runs, histVars, harnessVars>>

\* _send_stats (lines 475-476 and 503-512): the thread waits in
\* send_message; msg_ok = FALSE: it raises and _send_stats swallows that.
SendStats(t) ==
    /\ pc[t] = "stats_send"
    /\ \E msg_ok \in BOOLEAN :
         stats_msgs' = IF msg_ok THEN stats_msgs + 1 ELSE stats_msgs
    /\ pc' = [pc EXCEPT ![t] = "stats_save"]
    /\ UNCHANGED <<feeds, storeVars, now, last_stats, is_running, runVars,
                   result, channel, runs, histVars, harnessVars>>

\* _save_stats_time, line 544: open('.last_stats', 'w') empties the file,
\* which from then on reads as None; open_ok = FALSE: open raises, which is
\* swallowed (lines 546-547), and the file stays as it was.
OpenStatsFile(t) ==
    /\ pc[t] = "stats_save"
    /\ \E open_ok \in BOOLEAN :
         /\ last_stats' = IF open_ok THEN None ELSE last_stats
         /\ pc' = [pc EXCEPT ![t] = IF open_ok THEN "stats_write" ELSE "finish"]
    /\ UNCHANGED <<feeds, storeVars, now, is_running, runVars, result, channel,
                   stats_msgs, runs, histVars, harnessVars>>

\* _save_stats_time, lines 545-547: the time is written when the file is
\* closed; write_ok = FALSE: that raises, which is swallowed, and the file
\* stays as it is by then.
SaveStatsTime(t) ==
    /\ pc[t] = "stats_write"
    /\ \E write_ok \in BOOLEAN :
         last_stats' = IF write_ok THEN now ELSE last_stats
    /\ pc' = [pc EXCEPT ![t] = "finish"]
    /\ UNCHANGED <<feeds, storeVars, now, is_running, runVars, result, channel,
                   stats_msgs, runs, histVars, harnessVars>>

\* run_bot after bot.run() returned (lines 585-598): get_stats and the
\* success response, or the error response when get_stats raises.
Respond(t) ==
    /\ pc[t] = "finish"
    /\ \E db_ok \in BOOLEAN :
         result' = [result EXCEPT ![t] = IF db_ok THEN "success" ELSE "error"]
    /\ pc' = [pc EXCEPT ![t] = "release"]
    /\ UNCHANGED <<feeds, storeVars, now, last_stats, is_running, runVars,
                   channel, stats_msgs, runs, histVars, harnessVars>>

\* run_bot with is_running = False as the last statement of the try block
\* instead of the finally: the except path leaves the guard set.
Release_in_try(t) ==
    /\ pc[t] = "release"
    /\ is_running' = IF result[t] = "error" THEN is_running ELSE FALSE
    /\ pc' = [pc EXCEPT ![t] = "idle"]
    /\ doneFps' = doneFps \cup okSends[t]
    /\ articles' = [articles EXCEPT ![t] = <<>>]
    /\ sent_count' = [sent_count EXCEPT ![t] = 0]
    /\ okSends' = [okSends EXCEPT ![t] = {}]
    /\ failedSends' = [failedSends EXCEPT ![t] = {}]
    /\ attempted' = [attempted EXCEPT ![t] = <<>>]
    /\ wrote' = [wrote EXCEPT ![t] = {}]
    /\ prior' = [prior EXCEPT ![t] = {}]
    /\ storeErr' = [storeErr EXCEPT ![t] = FALSE]
    /\ UNCHANGED <<feeds, storeVars, now, last_stats, cursor, result, channel,
                   stats_msgs, runs, harnessVars>>

\* run_bot, finally (lines 599-600): the guard is cleared and the response
\* returned; the bot object of the run is dropped.
Release(t) ==
    /\ pc[t] = "release"
    /\ is_running' = FALSE
    /\ pc' = [pc EXCEPT ![t] = "idle"]
    /\ doneFps' = doneFps \cup okSends[t]
    /\ articles' = [articles EXCEPT ![t] = <<>>]
    /\ sent_count' = [sent_count EXCEPT ![t] = 0]
    /\ okSends' = [okSends EXCEPT ![t] = {}]
    /\ failedSends' = [failedSends EXCEPT ![t] = {}]
    /\ attempted' = [attempted EXCEPT ![t] = <<>>]
    /\ wrote' = [wrote EXCEPT ![t] = {}]
    /\ prior' = [prior EXCEPT ![t] = {}]
    /\ storeErr' = [storeErr EXCEPT ![t] = FALSE]
    /\ UNCHANGED <<feeds, storeVars, now, last_stats, cursor, result, channel,
                   stats_msgs, runs, harnessVars>>

\* Time passes between triggers (the cron interval): the clock moves in
\* steps of TickDays while no request is in flight.
Tick ==
    /\ \A t \in Threads : pc[t] = "idle"
    /\ runs < MaxRuns
    /\ now < MaxTicks * TickDays
    /\ now' = now + TickDays
    /\ UNCHANGED <<feeds, storeVars, last_stats, is_running, pc, runVars, result,
                   channel, stats_msgs, runs, histVars, harnessVars>>

Next ==
    \/ \E t \in Threads : Trigger(t)
    \/ \E t \in Threads : Acquire(t)
    \/ \E t \in Threads : Fetch(t)
    \/ \E t \in Threads : SendPost(t)
    \/ \E t \in Threads : SavePost(t)
    \/ \E t \in Threads : Stats(t)
    \/ \E t \in Threads : SendStats(t)
    \/ \E t \in Threads : OpenStatsFile(t)
    \/ \E t \in Threads : SaveStatsTime(t)
    \/ \E t \in Threads : Respond(t)
    \/ \E t \in Threads : Release(t)
    \/ Tick

Spec == Init /\ [][Next]_vars

\* ------------------------------------------------------ concurrent requests
\* Requests racing for the guard on a day when OpenNet carries one new
\* entry and Hacker News cannot be read.
InitGuard ==
    /\ feeds = [f \in FeedIds |->
                  IF f = 1 THEN [ok |-> TRUE, entries |-> <<E1>>] ELSE FAIL]
    /\ InitCommon
    /\ InitPure

GuardSpec == InitGuard /\ [][Next]_vars

\* ------------------------------------------------------ one request at a time
\* The cron caller alone: each trigger after the response to the one before,
\* on days with up to three entries per feed.
InitWide ==
    /\ feeds \in {fs \in [FeedIds -> UNION {WideResults(f) : f \in FeedIds}] :
                    \A f \in FeedIds : fs[f] \in WideResults(f)}
    /\ InitCommon
    /\ InitPure

NextSeq ==
    \/ (runs < MaxWideRuns /\ Trigger(1))
    \/ Acquire(1)
    \/ Fetch(1)
    \/ SendPost(1)
    \/ SavePost(1)
    \/ Stats(1)
    \/ SendStats(1)
    \/ OpenStatsFile(1)
    \/ SaveStatsTime(1)
    \/ Respond(1)
    \/ Release(1)

WideSpec == InitWide /\ [][NextSeq]_vars

\* ------------------------------------------------------ runs over months
\* The cron caller alone, which goes on calling /run, with up to
\* MaxStoreTicks * TickDays days passing between the triggers.

\* Bound of the state space: the behaviour is followed while the channel
\* holds, per fingerprint, at most MaxPosts posts and, in all, at most
\* MaxStatsMsgs statistics messages.  A run sends up to MaxSend posts or one
\* statistics message, so a request is followed when that many still fit.
RoomForRun ==
    /\ \A h \in Hashes : channel[h] + MaxSend <= MaxPosts
    /\ stats_msgs + 1 <= MaxStatsMsgs

\* run_bot, lines 572-574, for the cron's requests: the guard check of
\* Trigger with no bound on the number of requests; runs counts them up to
\* MaxRuns.
CronTrigger ==
    /\ pc[1] = "idle"
    /\ RoomForRun
    /\ IF is_running
       THEN /\ result' = [result EXCEPT ![1] = "busy"]
            /\ UNCHANGED <<pc, runs>>
       ELSE /\ pc' = [pc EXCEPT ![1] = "passed"]
            /\ result' = [result EXCEPT ![1] = "none"]
            /\ runs' = Min(runs + 1, MaxRuns)
    /\ prior' = [prior EXCEPT ![1] = IF is_running THEN @ ELSE doneFps]
    /\ UNCHANGED <<feeds, storeVars, now, last_stats, is_running, runVars,
                   channel, stats_msgs, okSends, failedSends, attempted, wrote,
                   doneFps, storeErr, harnessVars>>

\* Time passes between the cron's triggers, up to the last day of the model.
AgeTick ==
    /\ \A t \in Threads : pc[t] = "idle"
    /\ now < MaxStoreTicks * TickDays
    /\ now' = now + TickDays
    /\ UNCHANGED <<feeds, storeVars, last_stats, is_running, pc, runVars, result,
                   channel, stats_msgs, runs, histVars, harnessVars>>

NextRetention ==
    \/ CronTrigger
    \/ Acquire(1)
    \/ Fetch(1)
    \/ SendPost(1)
    \/ SavePost(1)
    \/ Stats(1)
    \/ SendStats(1)
    \/ OpenStatsFile(1)
    \/ SaveStatsTime(1)
    \/ Respond(1)
    \/ Release(1)
    \/ AgeTick

\* Fairness: a request that was accepted runs to its response, and the cron
\* caller keeps triggering.
RetentionSpec == Init /\ [][NextRetention]_vars /\ WF_vars(NextRetention)

\* ------------------------------------------------------- store harness
\* The DatabaseManager methods called directly, in any order, on one
\* database file; db_ok = FALSE: the statement raises.
StoreArticles == {ArticleOf[1][E1], ArticleOf[2][E2], ArticleOf[2][E4]}

mainVars == <<feeds, last_stats, is_running, pc, cursor, articles, sent_count, result,
              channel, stats_msgs, runs, histVars, pureVars>>

InitStore ==
    /\ feeds = [f \in FeedIds |-> FAIL]
    /\ InitCommon
    /\ InitPure

\* DatabaseManager.save_post (lines 181-195)
CallSavePost(a, db_ok) ==
    /\ calls < MaxCalls
    /\ LET res == IF db_ok THEN save_post(sent_posts, sqlite_sequence, a, now)
                  ELSE save_post_failed(sent_posts, sqlite_sequence)
       IN  /\ sent_posts' = res.rows
           /\ sqlite_sequence' = res.seq
           /\ call' = [op |-> "save_post", hash |-> a.content_hash, db_ok |-> db_ok,
                       existed |-> is_post_sent(sent_posts, a.content_hash),
                       ret |-> res.ret, found |-> FALSE]
           /\ recorded' = IF res.ret # None /\ res.ret # 0
                          THEN recorded \cup {a.content_hash} ELSE recorded
    /\ calls' = calls + 1
    /\ UNCHANGED <<now, mainVars>>

\* DatabaseManager.is_post_sent (lines 174-179), which has no try: with
\* db_ok = FALSE the SELECT raises and the call returns nothing.
CallIsPostSent(h, db_ok) ==
    /\ call' = [op |-> "is_post_sent", hash |-> h, db_ok |-> db_ok,
                existed |-> is_post_sent(sent_posts, h), ret |-> None,
                found |-> db_ok /\ is_post_sent(sent_posts, h)]
    /\ UNCHANGED <<storeVars, now, calls, recorded, mainVars>>

\* DatabaseManager.cleanup_old_posts (lines 231-245); it returns 0 when the
\* DELETE raises.
CallCleanup(db_ok, late) ==
    /\ late \in LateChoices(sent_posts, now)
    /\ ~db_ok => late = {}
    /\ LET res == IF db_ok THEN cleanup_old_posts(sent_posts, now, late)
                  ELSE [rows |-> sent_posts, deleted |-> 0]
       IN  /\ sent_posts' = res.rows
           /\ call' = [op |-> "cleanup_old_posts", hash |-> <<>>, db_ok |-> db_ok,
                       existed |-> FALSE, ret |-> res.deleted, found |-> FALSE]
           /\ recorded' = recorded \ {r.content_hash : r \in sent_posts \ res.rows}
    /\ UNCHANGED <<sqlite_sequence, now, calls, mainVars>>

\* DatabaseManager() in a new request or a new process (lines 140-172);
\* db_ok = FALSE: a statement of init_database raises and so does the
\* constructor.
CallInitDatabase(db_ok) ==
    /\ sent_posts' = IF db_ok THEN init_database(sent_posts) ELSE sent_posts
    /\ call' = [op |-> "init_database", hash |-> <<>>, db_ok |-> db_ok,
                existed |-> FALSE, ret |-> None, found |-> FALSE]
    /\ UNCHANGED <<sqlite_sequence, now, calls, recorded, mainVars>>

StoreTick ==
    /\ now < MaxStoreTicks * TickDays
    /\ now' = now + TickDays
    /\ UNCHANGED <<storeVars, harnessVars, mainVars>>

NextStore ==
    \/ \E a \in StoreArticles, db_ok \in BOOLEAN : CallSavePost(a, db_ok)
    \/ \E h \in Hashes, db_ok \in BOOLEAN : CallIsPostSent(h, db_ok)
    \/ \E db_ok \in BOOLEAN, late \in SUBSET sent_posts : CallCleanup(db_ok, late)
    \/ \E db_ok \in BOOLEAN : CallInitDatabase(db_ok)
    \/ StoreTick

StoreSpec == InitStore /\ [][NextStore]_vars

\* ---------------------------------------------------- fingerprint harness
\* fetch_articles builds the article of one entry (lines 309-343), for two
\* entries drawn from feeds of the configuration.
PadLen == 500       \* length of the common part of the long summaries

\* text * n
Repeat(text, n) == [i \in 1..(n * Len(text)) |-> text[((i - 1) % Len(text)) + 1]]

H1 == [title |-> <<"g","i","t">>, summary |-> Repeat(<<"g">>, PadLen) \o <<"s","q","l">>,
       link |-> <<"l","1">>, published |-> "d1", id |-> "id1"]
H2 == [title |-> <<"g","i","t">>, summary |-> Repeat(<<"g">>, PadLen) \o <<"c","s","s">>,
       link |-> <<"l","1">>, published |-> "d1", id |-> "id1"]
H3 == [title |-> <<"g","i","t">>,
       summary |-> <<"<","p",">">> \o Repeat(<<"g">>, PadLen) \o <<"<","/","p",">">>
                   \o <<"r","u","s","t">>,
       link |-> <<"l","3">>, published |-> "d3", id |-> "id3"]
H4 == [title |-> <<"g","i","t">>,
       summary |-> Repeat(<<"g">>, PadLen - 1) \o <<"s","q","l">>,
       link |-> <<"l","1">>, published |-> "d1", id |-> "id1"]
H5 == [title |-> <<"g","o">>, summary |-> Repeat(<<"g">>, PadLen) \o <<"s","q","l">>,
       link |-> <<"l","1">>, published |-> "d1", id |-> "id1"]
H6 == [title |-> <<"g","i","t">>, summary |-> <<"s","q","l">>,
       link |-> <<"l","6">>, published |-> "", id |-> "id6"]
H7 == [title |-> <<"g","i","t">>, summary |-> <<"<","b",">","s","q","l","<","/","b",">">>,
       link |-> <<"l","7">>, published |-> "d2", id |-> "id7"]

HashPool == {H1, H2, H3, H4, H5, H6, H7}

InitHash ==
    /\ feeds = [f \in FeedIds |-> FAIL]
    /\ InitCommon
    /\ input \in [e1 : HashPool, f1 : FeedIds, r1 : BOOLEAN,
                  e2 : HashPool, f2 : FeedIds, r2 : BOOLEAN]
    /\ output = NoOutput

BuildArticles ==
    /\ ~output.done
    /\ output' = [done |-> TRUE,
                  a1 |-> MakeArticle(input.e1, IT_FEEDS[input.f1], input.r1),
                  a2 |-> MakeArticle(input.e2, IT_FEEDS[input.f2], input.r2)]
    /\ UNCHANGED <<input, storeVars, now, call, calls, recorded, feeds,
                   last_stats, is_running, pc, cursor, articles, sent_count, result,
                   channel, stats_msgs, runs, histVars>>

NextHash == BuildArticles

HashSpec == InitHash /\ [][NextHash]_vars

\* ------------------------------------------------------------ format_post
\* The literal parts of the post template (lines 405-418).  A character
\* outside ASCII is written as one ASCII character per code point: Cyrillic
\* letters by a Latin letter, the pictographs by N S T A D L C P K W X B R and
\* the variation selector that follows two of them by ~.
ScoreLabel == <<"\n","\n","S"," ","*","I","T","-","r","e","l","e","v","a","n","t","n","o","s","t","'",":","*"," ">>
CategoryLabel == <<"/","1","0","\n","T","~"," ","*","K","a","t","e","g","o","r","i","y",":","*"," ">>
SourceLabel == <<"\n","A"," ","*","I","s","t","o","c","n","i","k",":","*"," ">>
DescriptionLabel == <<"\n","\n","D"," ","*","O","p","i","s","a","n","i","e",":","*","\n">>
LinkLabel == <<"\n","\n","L"," ","[","C","i","t","a","t","'"," ","p","o","l","n","o","s","t","'","w","]","(">>
DateLabel == <<")","\n","\n","C"," ","*","D","a","t","a"," ","p","u","b","l","i","k","a","z","i","i",":","*"," ">>
BlankLine == <<"\n","\n">>

emoji_map(category) ==
    CASE category = "Programmirovanie" -> <<"P">>
      [] category = "Bezopasnost'" -> <<"K">>
      [] category = "DevOps" -> <<"W","~">>
      [] category = "Linux" -> <<"X">>
      [] category = "Open Source" -> <<"B">>
      [] category = "Technology" -> <<"R">>
      [] OTHER -> <<"N">>

\* The characters of the strings of the feed configuration.
Chars(str) ==
    CASE str = "OpenNet" -> <<"O","p","e","n","N","e","t">>
      [] str = "Hacker News" -> <<"H","a","c","k","e","r"," ","N","e","w","s">>
      [] str = "#OpenNet #Linux #OpenSource" -> <<"#","O","p","e","n","N","e","t"," ","#","L","i","n","u","x"," ","#","O","p","e","n","S","o","u","r","c","e">>
      [] str = "#HackerNews #Tech #Programming" -> <<"#","H","a","c","k","e","r","N","e","w","s"," ","#","T","e","c","h"," ","#","P","r","o","g","r","a","m","m","i","n","g">>
      [] str = "Linux" -> <<"L","i","n","u","x">>
      [] str = "Technology" -> <<"T","e","c","h","n","o","l","o","g","y">>
      [] str = "IT" -> <<"I","T">>

Max(a, b) == IF a > b THEN a ELSE b

\* text.rfind(c): the 0-based index of the last occurrence, -1 when none
rfind(text, c) ==
    LET at == {i \in 1..Len(text) : text[i] = c}
    IN  IF at = {} THEN -1 ELSE (CHOOSE i \in at : \A j \in at : j <= i) - 1

Ellipsis == <<".", ".", ".">>

\* lines 377-379
truncate_title(title) ==
    IF Len(title) > 150 THEN Take(title, 147) \o Ellipsis ELSE title

\* The description cut at the last terminator after offset 420.
truncate_description_420(description) ==
    IF Len(description) > 600
    THEN LET truncated == Take(description, 600)
             last_sentence == Max(Max(rfind(truncated, "."), rfind(truncated, "!")),
                                  rfind(truncated, "?"))
         IN  IF last_sentence > 420
             THEN Take(truncated, last_sentence + 1)
             ELSE truncated \o Ellipsis
    ELSE description

\* lines 381-389
truncate_description(description) ==
    IF Len(description) > 600
    THEN LET truncated == Take(description, 600)
             last_sentence == Max(Max(rfind(truncated, "."), rfind(truncated, "!")),
                                  rfind(truncated, "?"))
         IN  IF last_sentence > 400
             THEN Take(truncated, last_sentence + 1)
             ELSE truncated \o Ellipsis
    ELSE description

Digit(d) == CASE d = 0 -> "0" [] d = 1 -> "1" [] d = 2 -> "2" [] d = 3 -> "3"
              [] d = 4 -> "4" [] d = 5 -> "5" [] d = 6 -> "6" [] d = 7 -> "7"
              [] d = 8 -> "8" [] d = 9 -> "9"

\* str(n) for n >= 0
RECURSIVE Str(_)
Str(n) == IF n < 10 THEN <<Digit(n)>> ELSE Str(n \div 10) \o <<Digit(n % 10)>>

\* format_post (lines 375-420); current_date is datetime.now() as %d.%m.%Y.
format_post(article, current_date) ==
    emoji_map(article.category) \o <<" ">> \o truncate_title(article.title)
    \o ScoreLabel \o Str(article.it_score)
    \o CategoryLabel \o Chars(article.category)
    \o SourceLabel \o Chars(article.source)
    \o DescriptionLabel \o truncate_description(article.description)
    \o LinkLabel \o article.link
    \o DateLabel \o current_date
    \o BlankLine \o Chars(article.hashtags)

\* ------------------------------------------------------- format harness
\* fetch_articles builds the article of one IT-related entry and send_post
\* formats it (line 425).
LongLink == 4000     \* length of the long link
LongTitle == 200     \* length of the long title
FormatLens == {20, 600, 601, 900}                 \* lengths of the summary
TerminatorAt == {0, 300, 401, 402, 421, 422, 600, 601}  \* place of its terminator, 0: none
Terminators == {".", "!", "?"}

SummaryStart == <<"g","i","t"," ","s","q","l"," ">>

FormatSummary(len, pos, c) ==
    [i \in 1..len |-> IF i = pos THEN c
                      ELSE IF i <= Len(SummaryStart) THEN SummaryStart[i] ELSE "g"]

FormatEntries ==
    {[title |-> title, summary |-> FormatSummary(len, pos, c), link |-> link,
      published |-> "d1"] :
        title \in {<<"g","i","t">>, Take(Repeat(<<"g","i","t"," ">>, LongTitle), LongTitle)},
        len \in FormatLens, pos \in TerminatorAt, c \in Terminators,
        link \in {<<"l","1">>, Repeat(<<"l">>, LongLink)}}

Today == <<"2","9",".","1","0",".","2","0","2","6">>

InitFormat ==
    /\ feeds = [f \in FeedIds |-> FAIL]
    /\ InitCommon
    /\ input \in [entry : FormatEntries, feed : FeedIds]
    /\ output = NoOutput

FormatEntry ==
    /\ ~output.done
    /\ is_it_related(input.entry.title, clean_html(input.entry.summary, FALSE))
    /\ LET article == MakeArticle(input.entry, IT_FEEDS[input.feed], FALSE)
       IN  output' = [done |-> TRUE, article |-> article,
                      description |-> truncate_description(article.description),
                      post |-> format_post(article, Today)]
    /\ UNCHANGED <<input, storeVars, now, call, calls, recorded, feeds,
                   last_stats, is_running, pc, cursor, articles, sent_count, result,
                   channel, stats_msgs, runs, histVars>>

NextFormat == FormatEntry

FormatSpec == InitFormat /\ [][NextFormat]_vars

\* -------------------------------------------------------- score harness
\* calculate_it_score on texts of up to MaxWords words, as they are or
\* filled up with the letter q to 500 and to 501 characters.
MaxWords == 2

ScoreWords ==
    { <<"s","q","l">>, <<"h","t","t","p">>, <<"w","w","w",".">>,
      <<"g","i","t","h","u","b",".","c","o","m">>, <<"G","p","u">>, <<"g","o">> }

RECURSIVE Phrases(_)
Phrases(n) ==
    IF n = 0 THEN {<<>>}
    ELSE LET shorter == Phrases(n - 1)
         IN  shorter \cup ScoreWords
             \cup {p \o <<" ">> \o w : p \in shorter \ {<<>>}, w \in ScoreWords}

FillTo(text, n) ==
    IF n <= Len(text) THEN text
    ELSE text \o [i \in 1..(n - Len(text)) |-> "q"]

ScoreTexts ==
    {FillTo(p, n) : p \in Phrases(MaxWords), n \in {0, LongText, LongText + 1}}

InitScore ==
    /\ feeds = [f \in FeedIds |-> FAIL]
    /\ InitCommon
    /\ input \in [text : ScoreTexts]
    /\ output = NoOutput

ScoreText ==
    /\ ~output.done
    /\ output' = [done |-> TRUE, score |-> calculate_it_score(input.text)]
    /\ UNCHANGED <<input, storeVars, now, call, calls, recorded, feeds,
                   last_stats, is_running, pc, cursor, articles, sent_count, result,
                   channel, stats_msgs, runs, histVars>>

NextScore == ScoreText

ScoreSpec == InitScore /\ [][NextScore]_vars

\* ------------------------------------------------------------- claims
Active == {"fetch", "send", "save", "stats", "stats_send", "stats_save",
           "stats_write", "finish", "release"}
RunEnded(t) == pc[t] \in {"finish", "release"}

\* C1: no fingerprint is sent to the channel more than once (no purge and
\* no crash occur in Spec), also when two entries fetched in one run share
\* the fingerprint.
C1_SentAtMostOnce == \A h \in Hashes : channel[h] <= 1

\* C2: a run never delivers a fingerprint that a run which finished before
\* it was triggered has delivered (the feed state is fixed, nothing else writes the
\* store).
C2_NoRedeliveryInNextRun == \A t \in Threads : okSends[t] \cap prior[t] = {}

\* C3: at most one run is between acquiring the is_running guard and
\* releasing it.
C3_SingleFlight == Cardinality({t \in Threads : pc[t] \in Active}) <= 1

\* C4: when the send of a candidate failed in a run, the store holds no row
\* for its fingerprint at the end of that run, so the next run offers it again.
C4_FailedSendLeavesNoRecord ==
    \A t \in Threads :
        RunEnded(t) => \A h \in failedSends[t] : ~is_post_sent(sent_posts, h)

\* C5: at the end of a run every candidate it counted as delivered has a
\* row in the store.
C5_CountedImpliesRecorded ==
    \A t \in Threads :
        RunEnded(t) => \A h \in okSends[t] : is_post_sent(sent_posts, h)

\* C6: a run in which a lookup or an insert raised does not answer success.
C6_StoreFailureFailsRun ==
    \A t \in Threads :
        (pc[t] = "release" /\ storeErr[t]) => result[t] # "success"

\* C7: no two rows of sent_posts share a content_hash, after any sequence
\* of save_post and cleanup_old_posts calls.
C7_UniqueContentHash ==
    \A r1, r2 \in sent_posts : r1.content_hash = r2.content_hash => r1 = r2

C7_Witness ==
    /\ call.op = "save_post" /\ call.existed /\ call.db_ok
    /\ Cardinality(sent_posts) >= 2
    /\ \E r \in sent_posts : r.sent_date < now

\* C8: save_post on a fingerprint that has a row raises nothing, leaves the
\* table unchanged and returns 0, whereas a fresh insert adds the row and
\* returns its positive rowid.
C8_InsertIfAbsent ==
    [][(call'.op = "save_post" /\ calls' = calls + 1 /\ call'.db_ok) =>
          IF call'.existed
          THEN sent_posts' = sent_posts /\ call'.ret = 0
          ELSE /\ call'.ret > 0
               /\ \E r \in sent_posts' :
                     /\ r.id = call'.ret /\ r.content_hash = call'.hash
                     /\ sent_posts' = sent_posts \cup {r}]_vars

C8_Witness ==
    /\ call.op = "save_post" /\ call.existed /\ call.db_ok /\ call.ret = 0
    /\ \E r \in sent_posts : r.content_hash = call.hash /\ r.sent_date < now

\* C9: a fingerprint for which save_post succeeded is found by every
\* is_post_sent call that answers from then on, across new DatabaseManager
\* objects, until cleanup_old_posts removes its row.
C9_RecordedStaysFound ==
    /\ \A h \in recorded : is_post_sent(sent_posts, h)
    /\ (call.op = "is_post_sent" /\ call.db_ok /\ call.hash \in recorded) => call.found

C9_Witness ==
    /\ call.op = "is_post_sent" /\ call.found /\ call.hash \in recorded
    /\ \E r \in sent_posts : r.content_hash = call.hash /\ r.sent_date < now

\* The list of a run holds the article of entry e of feed f, built from the
\* cleaned summary or from the summary as it came.
InList(t, f, e) ==
    \E k \in 1..Len(articles[t]) :
        articles[t][k] \in {ArticleOf[f][e], RawArticleOf[f][e]}

\* Entry e is IT-related and has no row in the store, whichever of the two
\* texts _clean_html returned for it.
Unrecorded(e) ==
    /\ ~is_post_sent(sent_posts, HashOf[e])
    /\ ~is_post_sent(sent_posts, RawHashOf[e])

\* C10: after fetch_articles the list holds every entry of every feed that
\* did not fail which is IT-related and has no row in the store.
C10_AllEligibleFetched ==
    \A t \in Threads :
        pc[t] \in {"send", "stats"} =>
            \A f \in FeedIds :
                \A i \in 1..Len(Entries(feeds, f)) :
                    LET e == Entries(feeds, f)[i]
                    IN  (Related[e] /\ RawRelated[e] /\ Unrecorded(e)) => InList(t, f, e)

\* C11: an entry is a candidate exactly when its score is at least 3: every
\* article of a run's list, and every article the run calls send_post for,
\* has it_score >= 3, and a fetch in which no lookup raised lists every
\* unrecorded entry whose score is 3 or more.
C11_EligibleIffScoreAtLeast3 ==
    \A t \in Threads :
        /\ \A k \in 1..Len(articles[t]) : articles[t][k].it_score >= 3
        /\ \A j \in 1..Len(attempted[t]) : articles[t][attempted[t][j]].it_score >= 3
        /\ (pc[t] \in {"send", "save", "stats"} /\ ~storeErr[t]) =>
              \A f \in FeedIds :
                  \A i \in 1..Len(Entries(feeds, f)) :
                      LET e == Entries(feeds, f)[i]
                      IN  (/\ ArticleOf[f][e].it_score >= 3
                           /\ RawArticleOf[f][e].it_score >= 3
                           /\ Unrecorded(e)) => InList(t, f, e)

\* A run over a feed with two entries of score 3 and one of score 2 listed
\* and sent the former two only.
C11_Witness ==
    /\ feeds[1] = [ok |-> TRUE, entries |-> <<E1, E5, E3>>]
    /\ ArticleOf[1][E3].it_score = 2
    /\ pc[1] = "finish"
    /\ articles[1] = <<ArticleOf[1][E1], ArticleOf[1][E5]>>
    /\ articles[1][1].it_score = 3
    /\ attempted[1] = <<1, 2>>
    /\ sent_count[1] = 2


\* C12: the guard is set only while some run is between setting it and its
\* finally: every run, however it ends (success, exception, empty list),
\* clears is_running, so a trigger that arrives while no run is in
\* progress finds the guard clear and is not answered busy.
C12_GuardReleasedOnEveryExit ==
    is_running => \E t \in Threads : pc[t] \in Active

\* Two runs are over, the last one through the except path, and the guard
\* is clear.
C12_Witness ==
    /\ \A t \in Threads : pc[t] = "idle"
    /\ runs = 2
    /\ result[1] = "error"
    /\ ~is_running


\* C13: the step in which a trigger is answered busy happens only with the
\* guard set and changes nothing but that answer: the store, the channel,
\* the statistics file, the guard and every run's state stay as they were,
\* and the request thread is idle again (nothing is queued).
C13_BusyChangesNothing ==
    [][\A t \in Threads :
          (result[t] # "busy" /\ result'[t] = "busy") =>
              /\ is_running /\ is_running'
              /\ pc[t] = "idle" /\ pc' = pc
              /\ \A u \in Threads \ {t} : result'[u] = result[u]
              /\ UNCHANGED <<feeds, storeVars, now, last_stats, runVars,
                             channel, stats_msgs, runs, histVars>>]_vars

\* A trigger was answered busy while another run holds candidates to send.
C13_Witness ==
    \E t, u \in Threads :
        /\ result[t] = "busy" /\ pc[t] = "idle"
        /\ is_running
        /\ pc[u] = "send" /\ articles[u] # <<>>


\* The number of news posts in the channel.
RECURSIVE SumOver(_, _)
SumOver(f, S) ==
    IF S = {} THEN 0
    ELSE LET x == CHOOSE y \in S : TRUE IN f[x] + SumOver(f, S \ {x})

ChannelTotal == SumOver(channel, Hashes)

\* The posts a run has added to the channel: those it has counted and the
\* one it has sent and is about to record.
Delivered(t) == sent_count[t] + (IF pc[t] = "save" THEN 1 ELSE 0)

\* C14 as stated: a run adds at most one post to the channel.
C14_AtMostOnePerRun ==
    \A t \in Threads : Delivered(t) <= 1

\* C14: a run calls send_post at most three times, so it adds at most
\* three posts to the channel, however many candidates it fetched.
C14_AtMostThreePerRun ==
    \A t \in Threads : Delivered(t) <= Len(attempted[t]) /\ Len(attempted[t]) <= 3

\* A run that fetched five candidates has delivered three.
C14_Witness ==
    /\ pc[1] = "finish"
    /\ Len(articles[1]) = 5
    /\ sent_count[1] = 3
    /\ ChannelTotal = 3


\* The day of a published string; None when there is none to parse.
PublishedDay(p) ==
    CASE p = "d1" -> 1 [] p = "d2" -> 2 [] p = "d3" -> 3 [] OTHER -> None

\* The place of an article in the feed configuration and in its feed.
FeedIndex(a) == CHOOSE f \in FeedIds : IT_FEEDS[f].name = a.source
EntryIndex(a) ==
    LET es == Entries(feeds, FeedIndex(a))
    IN  CHOOSE i \in 1..Len(es) :
            a \in {ArticleOf[FeedIndex(a)][es[i]], RawArticleOf[FeedIndex(a)][es[i]]}

\* The positions a run calls send_post for are the first three of its list.
FirstSelected(t) ==
    pc[t] = "finish" =>
        attempted[t] = [k \in 1..Min(3, Len(articles[t])) |-> k]

\* C15 as stated: the list of a run is ordered by score descending, then by
\* published day descending (none last), then by feed declaration order,
\* and the first three are the ones sent.  (While fetch_articles is at work
\* its list is not sorted yet.)
C15_OrderedByScoreThenDate ==
    \A t \in Threads :
        /\ pc[t] # "fetch" => \A k \in 1..(Len(articles[t]) - 1) :
              LET a == articles[t][k]
                  b == articles[t][k + 1]
              IN  \/ a.it_score > b.it_score
                  \/ /\ a.it_score = b.it_score
                     /\ \/ PublishedDay(a.published) > PublishedDay(b.published)
                        \/ /\ PublishedDay(a.published) = PublishedDay(b.published)
                           /\ FeedIndex(a) <= FeedIndex(b)
        /\ FirstSelected(t)

\* C15: the list of a run is ordered by score descending, candidates of
\* equal score in the order they were fetched (feed declaration order, then
\* the order of the entries in the feed), and the first three are the ones
\* sent.
C15_OrderedByScoreThenFetchOrder ==
    \A t \in Threads :
        /\ pc[t] # "fetch" => \A k \in 1..(Len(articles[t]) - 1) :
              LET a == articles[t][k]
                  b == articles[t][k + 1]
              IN  \/ a.it_score > b.it_score
                  \/ /\ a.it_score = b.it_score
                     /\ \/ FeedIndex(a) < FeedIndex(b)
                        \/ /\ FeedIndex(a) = FeedIndex(b)
                           /\ EntryIndex(a) < EntryIndex(b)
        /\ FirstSelected(t)

\* Five candidates, three of them with score 3: the one published last
\* stands behind the one fetched first, and the first three were sent.
C15_Witness ==
    /\ pc[1] = "finish"
    /\ articles[1] = <<ArticleOf[2][E4], ArticleOf[2][E6], ArticleOf[1][E1],
                       ArticleOf[1][E5], ArticleOf[2][E2]>>
    /\ PublishedDay(E5.published) > PublishedDay(E1.published)
    /\ attempted[1] = <<1, 2, 3>>


\* C16: two entries with the same title and the same first 500 characters
\* of the text _clean_html returned for the summary get the same content_hash, whatever their link,
\* feed, published string, id and the rest of the summary.
C16_FingerprintOfTitleAndPrefix ==
    output.done =>
        ((/\ input.e1.title = input.e2.title
          /\ Take(clean_html(input.e1.summary, input.r1), 500)
               = Take(clean_html(input.e2.summary, input.r2), 500))
            => output.a1.content_hash = output.a2.content_hash)

\* Two entries of different feeds that differ in markup, in the text after
\* the 500th character, in link, published string and id: one fingerprint.
C16_Witness ==
    /\ output.done
    /\ input.e1 = H1 /\ input.e2 = H3 /\ input.f1 # input.f2
    /\ ~input.r1 /\ ~input.r2
    /\ output.a1.description # output.a2.description
    /\ output.a1.link # output.a2.link
    /\ output.a1.content_hash = output.a2.content_hash


\* A row is older than the retention age.
Aged == \E r \in sent_posts : r.sent_date < now - DaysToKeep

\* No step of a run removes a row, however many runs follow.
RowsNeverDeleted == [][sent_posts \subseteq sent_posts']_vars

\* No lookup, insert or send of the current request has failed, and the
\* last request was not answered with an error.
NoFailure == ~storeErr[1] /\ failedSends[1] = {} /\ result[1] # "error"

\* No statistics message is due: the last one went out the same day, and
\* .last_stats says so.
NoStatsDue == last_stats = now

\* A call of run has returned and run_bot answers success.
RunReturned == pc[1] = "release" /\ result[1] = "success"

\* C17: a row older than 60 days is eventually removed by a run: when from
\* some time on nothing fails, no statistics are due and runs keep
\* returning, then whenever the table holds such a row, later it holds none.
C17_AgedRowsEventuallyPurged ==
    (<>[](NoFailure /\ NoStatsDue) /\ []<>RunReturned) => (Aged ~> ~Aged)

\* A run that found the table holding a row older than 60 days, delivered a
\* post, recorded it and went on to the purge of lines 494-496 has returned
\* without an error in the store, and the old row is still in the table.
C17_AgedRowOutlivesDeliveringRun ==
    /\ RunReturned /\ NoFailure
    /\ sent_count[1] > 0 /\ wrote[1] # {}
    /\ \E r \in sent_posts : r.sent_date < now - DaysToKeep /\ r.content_hash \notin wrote[1]


\* C18: the post format_post composes for a candidate is at most 4096
\* characters long.
C18_PostWithinCeiling ==
    output.done => Len(output.post) <= 4096


\* The 0-based offset of the last '.', '!' or '?' of a text, -1 when it has none.
LastTerminator(text) ==
    LET at == {i \in 1..Len(text) : text[i] \in {".", "!", "?"}}
    IN  IF at = {} THEN -1 ELSE (CHOOSE i \in at : \A j \in at : j <= i) - 1

\* The description shown in the post is what the truncation returned.
ShownInPost ==
    Contains(DescriptionLabel \o output.description \o LinkLabel, output.post)

\* C19 as stated, max_len being 600: a description longer than 600 is cut
\* at 600, ends just after its last terminator when that lies at an offset
\* greater than 420 (70% of 600), and gets "..." appended in both cases; a
\* description of at most 600 characters is unchanged.
C19_CutAt70PercentWithEllipsis ==
    output.done =>
        LET d == output.article.description
            cut == Take(d, 600)
            last == LastTerminator(cut)
        IN  /\ ShownInPost
            /\ output.description =
                   IF Len(d) <= 600 THEN d
                   ELSE IF last > 420 THEN Take(cut, last + 1) \o <<".", ".", ".">>
                   ELSE cut \o <<".", ".", ".">>

\* C19: a description longer than 600 is cut at 600; when the last
\* terminator of the cut lies at an offset greater than 400 the result ends
\* just after it and gets no ellipsis, otherwise the result is the cut
\* followed by "..."; a description of at most 600 characters is unchanged.
C19_CutAtSentenceOrEllipsis ==
    output.done =>
        LET d == output.article.description
            cut == Take(d, 600)
            last == LastTerminator(cut)
        IN  /\ ShownInPost
            /\ output.description =
                   IF Len(d) <= 600 THEN d
                   ELSE IF last > 400 THEN Take(cut, last + 1)
                   ELSE cut \o <<".", ".", ".">>

\* A description of more than 600 characters whose last terminator lies at
\* offset 401: the shown text is its first 402 characters.
C19_Witness ==
    /\ output.done
    /\ Len(output.article.description) > 600
    /\ LastTerminator(Take(output.article.description, 600)) = 401
    /\ Len(output.description) = 402
    /\ output.description[402] \in {".", "!", "?"}


\* The terms of the dictionary and how often the list names each.
Terms == {IT_KEYWORDS[k] : k \in 1..Len(IT_KEYWORDS)}
Listed == [term \in Terms |->
             Cardinality({k \in 1..Len(IT_KEYWORDS) : IT_KEYWORDS[k] = term})]
Occurring(text) == {term \in Terms : Contains(Lower(term), Lower(text))}

LengthBonus(text) == IF Len(text) > 500 THEN 1 ELSE 0
HostBonus(text) ==
    IF Contains(<<"g","i","t","h","u","b",".","c","o","m">>, Lower(text)) THEN 2 ELSE 0
UrlBonus(text) ==
    IF \/ Contains(<<"h","t","t","p">>, Lower(text))
       \/ Contains(<<"w","w","w",".">>, Lower(text))
    THEN 1 ELSE 0

\* C20 as stated: the score is the number of dictionary terms occurring in
\* the text, each counted once, plus 1 for a text longer than 500 and plus
\* 2 for a code-hosting substring, and nothing else.
C20_ScoreIsTermsPlusTwoBonuses ==
    output.done =>
        output.score = Cardinality(Occurring(input.text))
                       + LengthBonus(input.text) + HostBonus(input.text)

\* C20: the score of the empty text is 0; otherwise it is the number of
\* entries of the keyword list occurring in the text (a term listed twice
\* counts twice), plus 2 for a code-hosting substring, plus 1 for 'http' or
\* 'www.', plus 1 for a text longer than 500.
C20_ScoreIsEntriesPlusThreeBonuses ==
    output.done =>
        /\ output.score >= 0
        /\ output.score =
              IF input.text = <<>> THEN 0
              ELSE SumOver(Listed, Occurring(input.text))
                   + HostBonus(input.text) + UrlBonus(input.text)
                   + LengthBonus(input.text)

\* 'www. sql' filled up to 501 characters: 2 for sql, which the list names
\* twice, 1 for www. and 1 for the length.
C20_Witness ==
    /\ output.done
    /\ Len(input.text) = 501
    /\ Occurring(input.text) = {<<"s","q","l">>}
    /\ UrlBonus(input.text) = 1
    /\ output.score = 4


\* The fingerprints of the first three articles of a run's list.
SelectedHashes(t) ==
    {articles[t][k].content_hash : k \in 1..Min(3, Len(articles[t]))}

\* C21: a run calls send_post for the first three articles of its list, in
\* order and whether or not an earlier send failed, and for no other: when
\* its loop ends every selected fingerprint was sent or failed, and every
\* post that reaches the channel is the article some run's loop is at,
\* among the first three of its list.
C21_AttemptsExactlyFirstThree ==
    [][/\ \A t \in Threads :
            (pc[t] \in {"send", "save"} /\ pc'[t] = "finish") =>
                /\ attempted'[t] = [k \in 1..Min(3, Len(articles[t])) |-> k]
                /\ okSends'[t] \cup failedSends'[t] = SelectedHashes(t)
       /\ \A h \in Hashes :
            channel'[h] # channel[h] =>
                \E t \in Threads :
                    /\ pc[t] = "send" /\ pc'[t] = "save"
                    /\ cursor[t][1] <= 3
                    /\ h = articles[t][cursor[t][1]].content_hash
                    /\ attempted'[t] = Append(attempted[t], cursor[t][1])]_vars

\* Of five candidates the first could not be sent; the second and the third
\* were sent, the fourth was not tried in its place.
C21_Witness ==
    /\ pc[1] = "finish"
    /\ Len(articles[1]) = 5
    /\ attempted[1] = <<1, 2, 3>>
    /\ failedSends[1] = {articles[1][1].content_hash}
    /\ okSends[1] = {articles[1][2].content_hash, articles[1][3].content_hash}
    /\ channel[articles[1][4].content_hash] = 0


\* The run of thread t found no candidate: it is past fetch_articles with an
\* empty list.
EmptyRun(t) ==
    /\ pc[t] \in {"stats", "stats_send", "stats_save", "stats_write", "finish",
                "release"}
    /\ articles[t] = <<>>

\* A step of the run of thread t.
StepOf(t) == pc'[t] # pc[t] \/ cursor'[t] # cursor[t] \/ articles'[t] # articles[t]

\* C22: no step of a run that found no candidate changes the table, its
\* rowid counter or the news posts in the channel; such a run sends a
\* statistics message only in the one step in which it calls _send_stats,
\* and one at most; no step of a run that holds a candidate sends a
\* statistics message.
C22_EmptyRunOnlyStats ==
    [][\A t \in Threads :
          /\ (EmptyRun(t) /\ StepOf(t)) =>
                /\ UNCHANGED <<sent_posts, sqlite_sequence, channel>>
                /\ stats_msgs' \in {stats_msgs, stats_msgs + 1}
                /\ pc[t] # "stats_send" => stats_msgs' = stats_msgs
                /\ pc[t] = "stats_send" => pc'[t] = "stats_save"
                /\ pc'[t] = "stats_send" => pc[t] = "stats"
          /\ (pc[t] \in Active /\ articles[t] # <<>> /\ StepOf(t)) =>
                stats_msgs' = stats_msgs /\ pc'[t] # "stats_send"]_vars

\* A run over readable feeds without an IT-related new entry has ended: one
\* statistics message, no news post, no row.
C22_Witness ==
    /\ feeds[1] = [ok |-> TRUE, entries |-> <<E3>>]
    /\ pc[1] = "release" /\ articles[1] = <<>> /\ result[1] = "success"
    /\ stats_msgs = 1 /\ last_stats = now
    /\ sent_posts = {} /\ sqlite_sequence = 0
    /\ ChannelTotal = 0

====
